---- MODULE Spec2Model ----
(***************************************************************************)
(* A model of tng_tools/split.py: the filename codec, the catalog builder  *)
(* (_build_catalog_entry, _upgrade_existing_catalog, _write_catalog_table) *)
(* and the fetch-and-split pipeline (download_and_split_hsc_images).       *)
(*                                                                         *)
(* Strings are sequences of one-character strings, so that formatting and  *)
(* parsing are computed and not assumed.  A table is a record              *)
(* [cols, rows]: the column names in order and the rows, each a function   *)
(* from the column names to values.  The table I/O of astropy (FITS) is an *)
(* external collaborator: a written table is read back with the same       *)
(* columns and the same values.                                            *)
(***************************************************************************)
EXTENDS Integers, Sequences, FiniteSets, TLC

\* ------------------------------------------------------------------ bounds
MaxBatch == 2
MaxRetriesBound == 3
MaxWrites == 3
MaxEntries == 2
MaxListing == 2

\* --------------------------------------------------------------- strings
Digits == {"0", "1", "2", "3", "4", "5", "6", "7", "8", "9"}
\* [A-Za-z]
Letters ==
  {"a", "b", "c", "d", "e", "f", "g", "h", "i", "j", "k", "l", "m",
   "n", "o", "p", "q", "r", "s", "t", "u", "v", "w", "x", "y", "z",
   "A", "B", "C", "D", "E", "F", "G", "H", "I", "J", "K", "L", "M",
   "N", "O", "P", "Q", "R", "S", "T", "U", "V", "W", "X", "Y", "Z"}

DigitVal(c) ==
  CASE c = "0" -> 0 [] c = "1" -> 1 [] c = "2" -> 2 [] c = "3" -> 3
    [] c = "4" -> 4 [] c = "5" -> 5 [] c = "6" -> 6 [] c = "7" -> 7
    [] c = "8" -> 8 [] c = "9" -> 9

DigitChar(d) == <<"0", "1", "2", "3", "4", "5", "6", "7", "8", "9">>[d + 1]

IsDigits(s) == Len(s) > 0 /\ \A i \in 1..Len(s) : s[i] \in Digits

RECURSIVE DigitsToInt(_)
DigitsToInt(s) ==
  IF Len(s) = 0 THEN 0
  ELSE 10 * DigitsToInt(SubSeq(s, 1, Len(s) - 1)) + DigitVal(s[Len(s)])

RECURSIVE NatToStr(_)
NatToStr(n) ==
  IF n < 10 THEN <<DigitChar(n)>>
  ELSE NatToStr(n \div 10) \o <<DigitChar(n % 10)>>

\* str(int): a minus sign and the decimal digits, no leading zeros
IntToStr(n) == IF n < 0 THEN <<"-">> \o NatToStr(0 - n) ELSE NatToStr(n)

\* str.split(sep): the pieces between the occurrences of sep, empty ones kept
RECURSIVE SplitOn(_, _)
SplitOn(s, sep) ==
  IF \A i \in 1..Len(s) : s[i] # sep THEN <<s>>
  ELSE LET k == CHOOSE i \in 1..Len(s) :
                   s[i] = sep /\ \A j \in 1..(i - 1) : s[j] # sep
       IN <<SubSeq(s, 1, k - 1)>> \o SplitOn(SubSeq(s, k + 1, Len(s)), sep)

\* sep.join(pieces)
RECURSIVE JoinWith(_, _)
JoinWith(pieces, sep) ==
  IF Len(pieces) = 0 THEN <<>>
  ELSE IF Len(pieces) = 1 THEN pieces[1]
  ELSE pieces[1] \o <<sep>> \o JoinWith(Tail(pieces), sep)

\* the longest run of digits of s that starts at position i
RECURSIVE DigitRun(_, _)
DigitRun(s, i) ==
  IF i > Len(s) \/ s[i] \notin Digits THEN <<>>
  ELSE <<s[i]>> \o DigitRun(s, i + 1)

HasPrefixAt(s, p, i) ==
  /\ i + Len(p) - 1 <= Len(s)
  /\ \A j \in 1..Len(p) : s[i + j - 1] = p[j]

\* re.search(prefix + r'(\d+)', s): the positions where prefix is followed by
\* a digit; the leftmost one is the match, its digits taken greedily
MatchPositions(s, p) ==
  {i \in 1..Len(s) : HasPrefixAt(s, p, i) /\ DigitRun(s, i + Len(p)) # <<>>}

SearchDigitsAfter(s, p) ==
  LET ps == MatchPositions(s, p)
      k == CHOOSE i \in ps : \A j \in ps : i <= j
  IN DigitRun(s, k + Len(p))

\* ------------------------------------------------------- schema constants
\* Python's None where a string is expected: no string of characters equals it
None == <<"None">>

FILTERS == <<"G", "R", "I", "Z", "Y">>

IDENT_COLUMNS ==
  <<"object_id", "filename", "filter", "sim", "snapshot", "subhalo", "dbid",
    "has_merger_row">>

MERGER_LABEL_COLUMNS ==
  <<"has_major_past_1gyr", "has_major_future_1gyr", "has_minor_past_1gyr",
    "has_minor_future_1gyr", "has_mini_past_1gyr", "has_mini_future_1gyr",
    "major_count_since_1gyr", "major_count_until_1gyr",
    "minor_count_since_1gyr", "minor_count_until_1gyr",
    "mini_count_since_1gyr", "mini_count_until_1gyr",
    "major_time_since_merger", "major_time_until_merger",
    "minor_time_since_merger", "minor_time_until_merger",
    "mini_time_since_merger", "mini_time_until_merger">>

CATALOG_COLUMN_ORDER == IDENT_COLUMNS \o MERGER_LABEL_COLUMNS

SeqToSet(s) == {s[i] : i \in 1..Len(s)}

\* float sentinel -1.0 of the time columns, as the pair <<"float", tenths>>
Float(tenths) == <<"float", tenths>>

DEFAULT_COLUMN_VALUES ==
  [c \in SeqToSet(CATALOG_COLUMN_ORDER) |->
     IF c \in {"object_id", "sim", "snapshot", "subhalo"} THEN -1
     ELSE IF c \in {"filename", "filter", "dbid"} THEN <<>>
     ELSE IF c = "has_merger_row" THEN FALSE
     ELSE IF c \in SeqToSet(SubSeq(MERGER_LABEL_COLUMNS, 1, 6)) THEN FALSE
     ELSE IF c \in SeqToSet(SubSeq(MERGER_LABEL_COLUMNS, 7, 12)) THEN 0
     ELSE Float(-10)]

_default_catalog_entry == DEFAULT_COLUMN_VALUES

_default_value_for_column(column_name) ==
  IF column_name \in DOMAIN DEFAULT_COLUMN_VALUES
  THEN DEFAULT_COLUMN_VALUES[column_name]
  ELSE <<>>

\* ------------------------------------------------------------ filename codec
S_TNG == <<"T", "N", "G">>
S_v == <<"v">>
S_hsc == <<"h", "s", "c">>
S_realistic_fits ==
  <<"r", "e", "a", "l", "i", "s", "t", "i", "c", ".", "f", "i", "t", "s">>
S_parent_fits == <<"p", "a", "r", "e", "n", "t", ".", "f", "i", "t", "s">>
S_TNG_unknown == <<"T", "N", "G", "?">>
S_v_unknown == <<"v", "?">>

\* parse_url: IndexError when the URL has fewer than 9 slash-separated parts
parse_url_raises(u) == Len(SplitOn(u, "/")) < 9

parse_url(u) ==
  LET parts == SplitOn(u, "/")
      sim_token == parts[5]
      fn == parts[Len(parts)]
  IN [sim |-> IF MatchPositions(sim_token, S_TNG) # {}
              THEN SearchDigitsAfter(sim_token, S_TNG) ELSE S_TNG_unknown,
      snapshot |-> parts[7],
      subhalo |-> parts[9],
      version |-> IF MatchPositions(fn, S_v) # {}
                  THEN S_v \o SearchDigitsAfter(fn, S_v) ELSE S_v_unknown]

\* f'{sim}_{snapshot}_{subhalo}_{version}_parent.fits'
ParentName(p) ==
  JoinWith(<<p.sim, p.snapshot, p.subhalo, p.version, S_parent_fits>>, "_")

\* f'{sim}_{snapshot}_{subhalo}_{filt}_{version}_hsc_realistic.fits'
SplitName(p, filt) ==
  JoinWith(<<p.sim, p.snapshot, p.subhalo, <<filt>>, p.version, S_hsc,
             S_realistic_fits>>, "_")

IsVersion(s) ==
  \/ s = S_v_unknown
  \/ Len(s) >= 2 /\ s[1] = "v" /\ IsDigits(Tail(s))

\* SPLIT_FILENAME_RE: no group can hold an underscore, so the anchored pattern
\* matches exactly the names that split on "_" into its seven pieces
_parse_split_filename(filename) ==
  LET ps == SplitOn(filename, "_")
  IN IF /\ Len(ps) = 7
        /\ IsDigits(ps[1]) /\ IsDigits(ps[2]) /\ IsDigits(ps[3])
        /\ Len(ps[4]) = 1 /\ ps[4][1] \in Letters
        /\ IsVersion(ps[5])
        /\ ps[6] = S_hsc /\ ps[7] = S_realistic_fits
     THEN [matched |-> TRUE, sim |-> ps[1], snapshot |-> ps[2],
           subhalo |-> ps[3], filter |-> ps[4]]
     ELSE [matched |-> FALSE]

\* ------------------------------------------------------- numeric coercion
\* float() accepts an optional sign, digits and an optional fraction (the
\* exponent and the inf/nan spellings are outside the modelled inputs); None
\* (TypeError) and any other text (ValueError) take the default
Unsigned(s) == IF Len(s) > 0 /\ s[1] \in {"-", "+"} THEN Tail(s) ELSE s

IsNumberParts(ps) ==
  \/ Len(ps) = 1 /\ IsDigits(ps[1])
  \/ Len(ps) = 2 /\ IsDigits(ps[1]) /\ (ps[2] = <<>> \/ IsDigits(ps[2]))

IsNumber(s) == IsNumberParts(SplitOn(Unsigned(s), "."))

Signed(s, n) == IF s[1] = "-" THEN 0 - n ELSE n

\* int(float(value)): the fraction is cut off (towards zero)
_safe_int(value, default) ==
  IF ~IsNumber(value) THEN default
  ELSE Signed(value, DigitsToInt(SplitOn(Unsigned(value), ".")[1]))

Tenths(ps) ==
  10 * DigitsToInt(ps[1])
  + (IF Len(ps) = 2 /\ ps[2] # <<>> THEN DigitVal(ps[2][1]) ELSE 0)

\* float(value), in tenths: the modelled inputs have at most one decimal
_safe_float(value, default) ==
  IF ~IsNumber(value) THEN default
  ELSE Float(Signed(value, Tenths(SplitOn(Unsigned(value), "."))))

\* ------------------------------------------------------- merger label store
\* A merger CSV is a sequence of raw rows, each a function from its header
\* names to the raw text of the field; csv_files maps the text of a simulation
\* number to the CSV that _resolve_merger_csv_path finds for it.
RowGet(row, key) == IF key \in DOMAIN row THEN row[key] ELSE None

LabelsOf(major_count_since, major_count_until, minor_count_since, minor_count_until, mini_count_since, mini_count_until, times) ==
  [has_major_past_1gyr |-> major_count_since > 0,
   has_major_future_1gyr |-> major_count_until > 0,
   has_minor_past_1gyr |-> minor_count_since > 0,
   has_minor_future_1gyr |-> minor_count_until > 0,
   has_mini_past_1gyr |-> mini_count_since > 0,
   has_mini_future_1gyr |-> mini_count_until > 0,
   major_count_since_1gyr |-> major_count_since,
   major_count_until_1gyr |-> major_count_until,
   minor_count_since_1gyr |-> minor_count_since,
   minor_count_until_1gyr |-> minor_count_until,
   mini_count_since_1gyr |-> mini_count_since,
   mini_count_until_1gyr |-> mini_count_until,
   major_time_since_merger |-> times[1],
   major_time_until_merger |-> times[2],
   minor_time_since_merger |-> times[3],
   minor_time_until_merger |-> times[4],
   mini_time_since_merger |-> times[5],
   mini_time_until_merger |-> times[6]]

RAW_COUNT_COLUMNS ==
  <<"Major_CountSince1Gyr", "Major_CountUntil1Gyr", "Minor_CountSince1Gyr",
    "Minor_CountUntil1Gyr", "Mini_CountSince1Gyr", "Mini_CountUntil1Gyr">>
RAW_TIME_COLUMNS ==
  <<"Major_TimeSinceMerger", "Major_TimeUntilMerger", "Minor_TimeSinceMerger",
    "Minor_TimeUntilMerger", "Mini_TimeSinceMerger", "Mini_TimeUntilMerger">>

CountField(row, k) == _safe_int(RowGet(row, RAW_COUNT_COLUMNS[k]), 0)

_merger_labels_from_row(row) ==
  LabelsOf(CountField(row, 1), CountField(row, 2), CountField(row, 3),
           CountField(row, 4), CountField(row, 5), CountField(row, 6),
           [k \in 1..6 |->
              _safe_float(RowGet(row, RAW_TIME_COLUMNS[k]), Float(-10))])

\* the rows of a CSV with a non-empty dbID; a later row replaces an earlier
\* one with the same dbID
KeyedRows(rows) ==
  SelectSeq(rows, LAMBDA r : RowGet(r, "dbID") \notin {None, <<>>})

LastRowWith(rows, k) ==
  CHOOSE i \in 1..Len(rows) :
    /\ rows[i]["dbID"] = k
    /\ \A j \in (i + 1)..Len(rows) : rows[j]["dbID"] # k

MappingOf(rows) ==
  [k \in {rows[i]["dbID"] : i \in 1..Len(rows)} |->
     _merger_labels_from_row(rows[LastRowWith(rows, k)])]

_load_merger_rows(sim, files) ==
  IF sim \notin DOMAIN files THEN <<>> ELSE MappingOf(KeyedRows(files[sim]))

\* ------------------------------------------------------------ catalog builder
CachePut_Reloads(cache, sim_key, files) ==
  [k \in DOMAIN cache \cup {sim_key} |->
     IF k = sim_key THEN _load_merger_rows(sim_key, files) ELSE cache[k]]

CachePut(cache, sim_key, files) ==
  IF sim_key \in DOMAIN cache THEN cache
  ELSE [k \in DOMAIN cache \cup {sim_key} |->
          IF k = sim_key THEN _load_merger_rows(sim_key, files) ELSE cache[k]]

CacheWith(sim_int, snapshot_int, subhalo_int, cache, files) ==
  IF sim_int < 0 \/ snapshot_int < 0 \/ subhalo_int < 0 THEN cache
  ELSE CachePut(cache, IntToStr(sim_int), files)

\* merger_cache after the lookup of _build_catalog_entry: the CSV of the
\* simulation is loaded when its key is not cached yet
CacheAfterEntry(sim, snapshot, subhalo, cache, files) ==
  CacheWith(_safe_int(sim, -1), _safe_int(snapshot, -1),
            _safe_int(subhalo, -1), cache, files)

DbidOf(snapshot_int, subhalo_int) ==
  IF snapshot_int >= 0 /\ subhalo_int >= 0
  THEN IntToStr(snapshot_int) \o <<"_">> \o IntToStr(subhalo_int)
  ELSE <<>>

ObjectIdOf_NoGuard(snapshot_int, subhalo_int) ==
  snapshot_int * 1000000 + subhalo_int

ObjectIdOf(snapshot_int, subhalo_int) ==
  IF snapshot_int >= 0 /\ subhalo_int >= 0
  THEN snapshot_int * 1000000 + subhalo_int ELSE -1

IdentEntry(sim_int, snapshot_int, subhalo_int, filt, filename) ==
  [c \in DOMAIN DEFAULT_COLUMN_VALUES |->
     CASE c = "object_id" -> ObjectIdOf(snapshot_int, subhalo_int)
       [] c = "filename" -> filename
       [] c = "filter" -> filt
       [] c = "sim" -> sim_int
       [] c = "snapshot" -> snapshot_int
       [] c = "subhalo" -> subhalo_int
       [] c = "dbid" -> DbidOf(snapshot_int, subhalo_int)
       [] OTHER -> _default_catalog_entry[c]]

WithLabels_NoFlag(entry, merger_labels) ==
  [c \in DOMAIN entry |->
     IF c \in DOMAIN merger_labels THEN merger_labels[c] ELSE entry[c]]

WithLabels(entry, merger_labels) ==
  [c \in DOMAIN entry |->
     IF c = "has_merger_row" THEN TRUE
     ELSE IF c \in DOMAIN merger_labels THEN merger_labels[c]
     ELSE entry[c]]

\* the lookup of the entry's dbid in the cached mapping of its simulation
LookUp(entry, sim_key, loaded) ==
  IF entry["sim"] < 0 \/ entry["dbid"] = <<>> THEN entry
  ELSE IF entry["dbid"] \notin DOMAIN loaded[sim_key] THEN entry
  ELSE WithLabels(entry, loaded[sim_key][entry["dbid"]])

EntryWithInts(sim_int, snapshot_int, subhalo_int, filt, filename, cache, files) ==
  LookUp(IdentEntry(sim_int, snapshot_int, subhalo_int, filt, filename),
         IntToStr(sim_int),
         CacheWith(sim_int, snapshot_int, subhalo_int, cache, files))

_build_catalog_entry(sim, snapshot, subhalo, filt, filename, cache, files) ==
  EntryWithInts(_safe_int(sim, -1), _safe_int(snapshot, -1),
                _safe_int(subhalo, -1), filt, filename, cache, files)

\* ------------------------------------------------------------------- tables
Dedup(seq) ==
  SelectSeq([i \in 1..Len(seq) |-> <<i, seq[i]>>],
            LAMBDA p : \A j \in 1..(p[1] - 1) : seq[j] # p[2])

\* list(dict.fromkeys(a + b)): the first occurrence of each name, in order
OrderedUnion(a, b) ==
  LET d == Dedup(a \o b) IN [i \in 1..Len(d) |-> d[i][2]]

Column(table, col) == [i \in 1..Len(table.rows) |-> table.rows[i][col]]

AbsentFile == [exists |-> FALSE, cols |-> <<>>, rows |-> <<>>]

FileOf(table) == [exists |-> TRUE, cols |-> table.cols, rows |-> table.rows]

_build_catalog_table(catalog_entries) ==
  [cols |-> CATALOG_COLUMN_ORDER, rows |-> catalog_entries]

\* table[col] = [default] * len(table) for every col of all_columns not in it
_fill_missing_columns(table, all_columns) ==
  LET have == SeqToSet(table.cols)
      new == SelectSeq(all_columns, LAMBDA c : c \notin have)
  IN [cols |-> table.cols \o new,
      rows |-> [i \in 1..Len(table.rows) |->
                  [c \in have \cup SeqToSet(new) |->
                     IF c \in have THEN table.rows[i][c]
                     ELSE _default_value_for_column(c)]]]

\* table[all_columns]: the same rows under the given column order
SelectColumns(table, all_columns) ==
  [cols |-> all_columns,
   rows |-> [i \in 1..Len(table.rows) |->
               [c \in SeqToSet(all_columns) |-> table.rows[i][c]]]]

UnparsedEntry(filename, filt) ==
  [c \in DOMAIN DEFAULT_COLUMN_VALUES |->
     IF c = "filename" THEN filename
     ELSE IF c = "filter" THEN filt
     ELSE _default_catalog_entry[c]]

UpgradeParsed(filename, filt, parsed, cache, files) ==
  IF ~parsed.matched THEN UnparsedEntry(filename, filt)
  ELSE _build_catalog_entry(parsed.sim, parsed.snapshot, parsed.subhalo,
                            IF filt # <<>> THEN filt ELSE parsed.filter,
                            filename, cache, files)

\* the entry _upgrade_existing_catalog derives for one row of the catalog
UpgradeEntry(row, has_filter, cache, files) ==
  UpgradeParsed(row["filename"], IF has_filter THEN row["filter"] ELSE <<>>,
                _parse_split_filename(row["filename"]), cache, files)

CacheAfterParsed(parsed, cache, files) ==
  IF parsed.matched
  THEN CacheAfterEntry(parsed.sim, parsed.snapshot, parsed.subhalo, cache,
                       files)
  ELSE cache

\* merger_cache after the rows of the catalog were upgraded one after another
RECURSIVE CacheAfterUpgrade(_, _, _)
CacheAfterUpgrade(rows, cache, files) ==
  IF Len(rows) = 0 THEN cache
  ELSE CacheAfterUpgrade(
         Tail(rows),
         CacheAfterParsed(_parse_split_filename(rows[1]["filename"]), cache,
                          files),
         files)

\* existing[col] = [entry[col] for entry in parsed_entries] for the standard
\* columns the catalog lacks
AddColumns(existing, have, new, cache, files) ==
  [cols |-> existing.cols \o new,
   rows |-> [i \in 1..Len(existing.rows) |->
               [c \in have \cup SeqToSet(new) |->
                  IF c \in have THEN existing.rows[i][c]
                  ELSE UpgradeEntry(existing.rows[i], "filter" \in have,
                                    cache, files)[c]]]]

MissingStandard(cols) ==
  SelectSeq(CATALOG_COLUMN_ORDER, LAMBDA c : c \notin SeqToSet(cols))

_upgrade_existing_catalog(existing, cache, files) ==
  IF "filename" \notin SeqToSet(existing.cols) THEN existing
  ELSE AddColumns(existing, SeqToSet(existing.cols),
                  MissingStandard(existing.cols), cache, files)

\* a mask that drops nothing
MaskNew_KeepAll(table, existing_filenames) == table

\* the rows of the incoming table that pass the mask of _write_catalog_table
MaskNew(table, existing_filenames) ==
  [cols |-> table.cols,
   rows |-> SelectSeq(table.rows,
                      LAMBDA r : r["filename"] \notin existing_filenames)]

\* the new rows stacked before the existing ones
vstack_NewFirst(existing, table) ==
  [cols |-> existing.cols, rows |-> table.rows \o existing.rows]

\* vstack([existing, table]) of two tables with the same columns
vstack(existing, table) ==
  [cols |-> existing.cols, rows |-> existing.rows \o table.rows]

\* existing['filename'] raises KeyError when the loaded catalog has no such
\* column: nothing is written
_write_catalog_table_raises(file, catalog_append) ==
  catalog_append /\ file.exists /\ "filename" \notin SeqToSet(file.cols)

\* both tables under the union of their columns, the existing one first
Stack(existing, table, all_columns) ==
  IF Len(table.rows) > 0
  THEN vstack(SelectColumns(_fill_missing_columns(existing, all_columns),
                            all_columns),
              SelectColumns(_fill_missing_columns(table, all_columns),
                            all_columns))
  ELSE SelectColumns(_fill_missing_columns(existing, all_columns),
                     all_columns)

MergeMasked(existing, masked) ==
  Stack(existing, masked, OrderedUnion(existing.cols, masked.cols))

MergeUpgraded(existing, table) ==
  MergeMasked(existing,
              IF Len(table.rows) > 0
              THEN MaskNew(table, SeqToSet(Column(existing, "filename")))
              ELSE table)

\* the table _write_catalog_table writes at catalog_path
MergedTable(table, file, cache, files) ==
  MergeUpgraded(_upgrade_existing_catalog(
                  [cols |-> file.cols, rows |-> file.rows], cache, files),
                table)

_write_catalog_table(table, file, catalog_append, cache, files) ==
  IF catalog_append /\ file.exists
  THEN FileOf(MergedTable(table, file, cache, files))
  ELSE FileOf(table)

\* merger_cache after _write_catalog_table
CacheAfterWrite(file, catalog_append, cache, files) ==
  IF catalog_append /\ file.exists /\ "filename" \in SeqToSet(file.cols)
  THEN CacheAfterUpgrade(file.rows, cache, files)
  ELSE cache

\* -------------------------------------------------------------------- state
VARIABLES
  catalog,          \* the file at catalog_path: [exists, cols, rows]
  catalog_writes,   \* how many times table.write(catalog_path) has run
  w_call,           \* the last call of _write_catalog_table: its table, its
                    \* catalog_append, the file it found, whether it raised
  csv_files,        \* the merger CSVs on disk, by simulation number
  merger_cache,     \* the run's merger cache
  cfg,              \* the arguments of download_and_split_hsc_images
  sub_files,        \* the files below split_output_dir: <<directory, name>>
  rebuild,          \* the last call of build_catalog_from_split_images
  fetch,            \* the call of make_list_of_urls: where it is, the GETs
                    \* it made, the URLs it gathered, the file it wrote
  batch,            \* the batch: indexes into URLS
  pc,               \* where the run is
  idx,              \* the batch item the main loop is at (from 1)
  dl,               \* download_with_retries: attempt, requests made, sleeps,
                    \* last_err, and the exception it raised
  response,         \* the body of the response r: a FITS file or not
  parent_files,     \* the files of parent_dir: name -> content
  split_files,      \* the names of the split files in split_output_dir
  dirs,             \* the directories the run created
  catalog_entries,  \* the entries collected (<<>> when catalog_path is None)
  failed_urls,      \* the (url, error) pairs recorded
  failed_file,      \* the file at failed_urls_path
  fi,               \* the filter the split loop is at (from 1)
  exc,              \* the exception being handled, or that ended the run
  items             \* per batch item: its state, the body it downloaded,
                    \* the filters its split loop went through, its error

catVars == <<catalog, catalog_writes, w_call, csv_files, merger_cache>>

toolVars == <<sub_files, rebuild, fetch>>

pipeVars == <<cfg, toolVars, batch, pc, idx, dl, response, parent_files, split_files,
              dirs, catalog_entries, failed_urls, failed_file, fi, exc, items>>

vars == <<catVars, pipeVars>>

\* ---------------------------------------------------------- modelled inputs
Str_50 == <<"5", "0">>
Str_72 == <<"7", "2">>
Str_3 == <<"3">>
Str_v2 == <<"v", "2">>

Src1 == [sim |-> Str_50, snapshot |-> Str_72, subhalo |-> Str_3,
         version |-> Str_v2]
\* what parse_url returns for a URL without a TNG<digits> token and version
Src2 == [sim |-> S_TNG_unknown, snapshot |-> Str_72, subhalo |-> Str_3,
         version |-> S_v_unknown]

\* a merger CSV for TNG50 with one row for dbID 72_3 (a count that is not a
\* number, a missing column) and one row without a dbID
CsvRow1 ==
  [dbID |-> <<"7", "2", "_", "3">>,
   Major_CountSince1Gyr |-> <<"2">>,
   Major_CountUntil1Gyr |-> <<"1", ".", "7">>,
   Major_TimeSinceMerger |-> <<"0", ".", "4">>,
   Major_TimeUntilMerger |-> <<"x">>,
   Minor_CountSince1Gyr |-> <<"0">>,
   Minor_CountUntil1Gyr |-> <<"n", "a">>,
   Minor_TimeSinceMerger |-> <<"-", "1", ".", "0">>,
   Minor_TimeUntilMerger |-> <<"0", ".", "5">>,
   Mini_CountSince1Gyr |-> <<"1">>,
   Mini_TimeSinceMerger |-> <<"0", ".", "2">>,
   Mini_TimeUntilMerger |-> <<>>]
CsvRow2 == [dbID |-> <<>>, Major_CountSince1Gyr |-> <<"5">>]

NoCsv == <<>>
Csv50 == [k \in {Str_50} |-> <<CsvRow1, CsvRow2>>]
CsvChoices == {NoCsv, Csv50}

EmptyCache == <<>>

\* the entries the pipeline builds for the split files of a source
EntryOf(src, filt, files) ==
  _build_catalog_entry(src.sim, src.snapshot, src.subhalo, <<filt>>,
                       SplitName(src, filt), EmptyCache, files)

EntryPool(files) ==
  {EntryOf(Src1, "G", files), EntryOf(Src1, "R", files),
   EntryOf(Src2, "G", files)}

SeqsUpTo(S, n) == UNION {[1..k -> S] : k \in 0..n}

MaxTableRows == 2

\* the tables _build_catalog_table can hand to _write_catalog_table; a batch
\* that lists a URL twice gives a table that repeats a filename
TablePool(files) ==
  {_build_catalog_table(es) : es \in SeqsUpTo(EntryPool(files), MaxTableRows)}

\* catalogs written by an older version: fewer columns, another order, a
\* column of its own, a name the codec cannot parse; and one without the
\* filename column
S_old_fits == <<"o", "l", "d", ".", "f", "i", "t", "s">>
LegacyCatalog ==
  [exists |-> TRUE,
   cols |-> <<"note", "filename", "filter">>,
   rows |-> <<[note |-> <<"a">>, filename |-> SplitName(Src1, "G"),
               filter |-> <<>>],
              [note |-> <<"b">>, filename |-> S_old_fits,
               filter |-> <<"Q">>]>>]
NamelessCatalog ==
  [exists |-> TRUE, cols |-> <<"object_id">>,
   rows |-> <<[object_id |-> 72000003]>>]

InitialCatalogs == {AbsentFile, LegacyCatalog, NamelessCatalog}

NoCall == [table |-> _build_catalog_table(<<>>), append |-> FALSE,
           existing |-> AbsentFile, raised |-> FALSE]

\* exceptions: the type, and for a failed request the attempt that raised it
NoError == [type |-> "None", attempt |-> 0]
\* the requests.RequestException that the k-th attempt raised
RequestError(k) == [type |-> "RequestException", attempt |-> k]
Error(type) == [type |-> type, attempt |-> 0]

\* the defaults of download_and_split_hsc_images, with a catalog path
DefaultCfg ==
  [remove_parent |-> TRUE, parent_file_only |-> FALSE, catalog |-> "write",
   failed |-> "none", parent_sep |-> FALSE, max_retries |-> 3,
   retry_backoff_sec |-> 2]

NoDownload == [attempt |-> 1, requests |-> 0, sleeps |-> <<>>,
               last_err |-> NoError, result |-> "none"]
NoBody == [valid |-> FALSE, exts |-> {}]

\* --------------------------------------------------- catalog write, as a step
\* _write_catalog_table(table, catalog_path, catalog_append, merger_cache)
WriteCatalogWith(table, append, cache) ==
  /\ w_call' = [table |-> table, append |-> append,
                existing |-> IF append THEN catalog ELSE AbsentFile,
                raised |-> _write_catalog_table_raises(catalog, append)]
  /\ IF _write_catalog_table_raises(catalog, append)
     THEN UNCHANGED <<catalog, catalog_writes>> /\ merger_cache' = cache
     ELSE /\ catalog' = _write_catalog_table(table, catalog, append, cache,
                                             csv_files)
          /\ catalog_writes' = catalog_writes + 1
          /\ merger_cache' = CacheAfterWrite(catalog, append, cache,
                                             csv_files)
  /\ UNCHANGED csv_files

\* the call with the cache the run has
WriteCatalog(table, append) == WriteCatalogWith(table, append, merger_cache)

NoRebuild == [done |-> FALSE, recursive |-> FALSE, scanned |-> 0,
              duplicates |-> 0]
NoFetch == [pc |-> "idle", listing |-> <<>>, filter |-> <<>>,
            filtered |-> <<>>, i |-> 1, gets |-> <<>>, all_urls |-> <<>>,
            out |-> [exists |-> FALSE, content |-> <<>>]]

IdleTools ==
  /\ sub_files = {}
  /\ rebuild = NoRebuild
  /\ fetch = NoFetch

\* no pipeline run: the builder is called on its own
IdleLoop ==
  /\ cfg = DefaultCfg
  /\ batch = <<>>
  /\ pc = "idle"
  /\ idx = 1
  /\ dl = NoDownload
  /\ response = NoBody
  /\ parent_files = <<>>
  /\ dirs = {}
  /\ catalog_entries = <<>>
  /\ failed_urls = <<>>
  /\ failed_file = [exists |-> FALSE, content |-> <<>>]
  /\ fi = 1
  /\ exc = NoError
  /\ items = <<>>

IdlePipeline ==
  /\ IdleLoop
  /\ split_files = {}
  /\ IdleTools

InitCatalog ==
  /\ catalog \in InitialCatalogs
  /\ catalog_writes = 0
  /\ w_call = NoCall
  /\ csv_files \in CsvChoices
  /\ merger_cache = EmptyCache
  /\ IdlePipeline

\* each call of the builder starts with a cache of its own (merger_cache=None)
CallWrite ==
  /\ catalog_writes < MaxWrites
  /\ \E table \in TablePool(csv_files), append \in BOOLEAN :
       WriteCatalog(table, append)
  /\ UNCHANGED pipeVars

NextCatalog == CallWrite

SpecCatalog == InitCatalog /\ [][NextCatalog]_vars

\* ---------------------------------------------------------- pipeline inputs
\* URLs as the remote API lists them; one with too few parts for parse_url,
\* one without a TNG<digits> token and without a version
Url_good ==
  <<"h", ":", "/", "/", "x", "/", "a", "/", "T", "N", "G", "5", "0", "-", "1", "/", "s", "/", "7", "2", "/", "s", "/", "3", "/", "k", "/", "f", "_", "v", "2", ".", "f", "i", "t", "s">>
Url_short == <<"h", ":", "/", "/", "x", "/", "f", ".", "f", "i", "t", "s">>
Url_odd ==
  <<"h", ":", "/", "/", "x", "/", "a", "/", "f", "i", "l", "e", "s", "/", "s", "/", "7", "2", "/", "s", "/", "3", "/", "k", "/", "f", ".", "f", "i", "t", "s">>
URLS == <<Url_good, Url_short, Url_odd>>

Batches == SeqsUpTo(1..Len(URLS), MaxBatch)

\* the body of a successful response: a FITS file with some of the
\* SUBARU_HSC.<filter> extensions, or bytes that fits.open rejects
Bodies ==
  {[valid |-> FALSE, exts |-> {}], [valid |-> TRUE, exts |-> {}],
   [valid |-> TRUE, exts |-> {"R", "Y"}]}

Url == URLS[batch[idx]]
ParentDirOf(c) == IF c.parent_sep THEN "parent_dir" ELSE "split_dir"
FailedDirOf(c) == IF c.failed = "in_split_dir" THEN "split_dir" ELSE "other_dir"

PutFile(files, name, content) ==
  [n \in DOMAIN files \cup {name} |-> IF n = name THEN content ELSE files[n]]
DropFile(files, name) == [n \in DOMAIN files \ {name} |-> files[n]]

NewItem == [state |-> "pending", body |-> NoBody, nfilt |-> 0,
            err |-> NoError]

\* str(exc): the text of an exception, one line
ErrorText(err) ==
  IF err.type = "RequestException"
  THEN <<"r", "e", "q", DigitChar(err.attempt)>>
  ELSE IF err.type = "ChunkedEncodingError" THEN <<"c", "h", "u", "n", "k">>
  ELSE IF err.type = "OSError" THEN <<"o", "s">>
  ELSE <<"e", "r", "r">>

FailedLine_NoError(url, err) == url \o <<"\t">>

\* f'{url}\t{err}'
FailedLine(url, err) == url \o <<"\t">> \o ErrorText(err)

record_failure_Drops(list, url, err) == list

\* record_failure(url, err)
record_failure(list, url, err) ==
  IF cfg.failed # "none" THEN Append(list, FailedLine(url, err))
  ELSE list

\* for line in failed_urls: f.write(line + '\n')
RECURSIVE WriteLines(_)
WriteLines(lines) ==
  IF lines = <<>> THEN <<>>
  ELSE Head(lines) \o <<"\n">> \o WriteLines(Tail(lines))

dlVars == <<dl, response>>
fsVars == <<parent_files, split_files, dirs>>
outVars == <<catalog_entries, failed_urls, failed_file>>

\* ------------------------------------------- download_and_split_hsc_images
Setup_MakesSplitDir ==
  /\ pc = "setup"
  /\ dirs' = dirs \cup {ParentDirOf(cfg), "split_dir"}
  /\ pc' = "loop"
  /\ UNCHANGED <<catVars, cfg, toolVars, batch, idx, dlVars, parent_files, split_files,
                 outVars, fi, exc, items>>

\* os.makedirs(parent_dir); os.makedirs(split_output_dir) unless parent-only;
\* the URL list is read and the batch cut from it
Setup ==
  /\ pc = "setup"
  /\ dirs' = dirs \cup {ParentDirOf(cfg)}
               \cup (IF cfg.parent_file_only THEN {} ELSE {"split_dir"})
  /\ pc' = "loop"
  /\ UNCHANGED <<catVars, cfg, toolVars, batch, idx, dlVars, parent_files, split_files,
                 outVars, fi, exc, items>>

\* the continue / the end of the loop body: on to the next URL; the locals
\* of the loop body are dead from here on
NextUrl(state) ==
  /\ items' = [items EXCEPT ![idx].state = state, ![idx].err = exc]
  /\ idx' = idx + 1
  /\ pc' = "loop"
  /\ dl' = NoDownload
  /\ response' = NoBody
  /\ fi' = 1
  /\ exc' = NoError

\* for url in batch: parse_url(url), outside of every try
BeginUrl ==
  /\ pc = "loop" /\ idx <= Len(batch)
  /\ ~parse_url_raises(Url)
  /\ pc' = "download"
  /\ dl' = NoDownload
  /\ items' = [items EXCEPT ![idx].state = "downloading"]
  /\ UNCHANGED <<catVars, cfg, toolVars, batch, idx, response, fsVars, outVars, fi, exc>>

\* parts[4], parts[6] or parts[8] raises IndexError: it leaves the function
ParseRaises ==
  /\ pc = "loop" /\ idx <= Len(batch)
  /\ parse_url_raises(Url)
  /\ pc' = "raised"
  /\ exc' = Error("IndexError")
  /\ UNCHANGED <<catVars, cfg, toolVars, batch, idx, dlVars, fsVars, outVars, fi, items>>

\* download_with_retries: requests.get and raise_for_status succeed
AttemptSucceeds ==
  /\ pc = "download" /\ dl.attempt <= cfg.max_retries
  /\ \E body \in Bodies : response' = body
  /\ dl' = [dl EXCEPT !.requests = @ + 1, !.result = "returned"]
  /\ pc' = "body"
  /\ UNCHANGED <<catVars, cfg, toolVars, batch, idx, fsVars, outVars, fi, exc, items>>

SleepsAfter_Always(d) ==
  Append(d.sleeps, cfg.retry_backoff_sec * d.attempt)

\* the sleep after a failed attempt that is not the last one
SleepsAfter(d) ==
  IF d.attempt < cfg.max_retries
  THEN Append(d.sleeps, cfg.retry_backoff_sec * d.attempt)
  ELSE d.sleeps

\* download_with_retries: the attempt raises a requests.RequestException
AttemptFails ==
  /\ pc = "download" /\ dl.attempt <= cfg.max_retries
  /\ dl' = [dl EXCEPT !.requests = @ + 1,
                      !.last_err = RequestError(dl.attempt),
                      !.sleeps = SleepsAfter(dl),
                      !.attempt = @ + 1]
  /\ UNCHANGED <<catVars, cfg, toolVars, batch, pc, idx, response, fsVars, outVars, fi,
                 exc, items>>

\* download_with_retries: the attempt raises another exception, which the
\* except clause of the retry loop does not catch
AttemptThrows ==
  /\ pc = "download" /\ dl.attempt <= cfg.max_retries
  /\ dl' = [dl EXCEPT !.requests = @ + 1, !.result = "raised"]
  /\ exc' = Error("OtherError")
  /\ pc' = "download_failed"
  /\ UNCHANGED <<catVars, cfg, toolVars, batch, idx, response, fsVars, outVars, fi,
                 items>>

\* download_with_retries: the loop is over, raise last_err (raise None is a
\* TypeError)
RetriesExhausted ==
  /\ pc = "download" /\ dl.attempt > cfg.max_retries
  /\ dl' = [dl EXCEPT !.result = "raised"]
  /\ exc' = IF dl.last_err = NoError THEN Error("TypeError") ELSE dl.last_err
  /\ pc' = "download_failed"
  /\ UNCHANGED <<catVars, cfg, toolVars, batch, idx, response, fsVars, outVars, fi,
                 items>>

\* open(parent_path, 'wb') and every chunk written
WriteBody ==
  /\ pc = "body"
  /\ parent_files' = PutFile(parent_files, ParentName(parse_url(Url)),
                             [complete |-> TRUE, body |-> response])
  /\ IF cfg.parent_file_only
     THEN NextUrl("downloaded")
     ELSE /\ pc' = "open"
          /\ items' = [items EXCEPT ![idx].state = "splitting",
                                    ![idx].body = response]
          /\ UNCHANGED <<idx, dlVars, fi, exc>>
  /\ UNCHANGED <<catVars, cfg, toolVars, batch, split_files, dirs, outVars>>

\* open(parent_path, 'wb'), then r.iter_content raises: the file stays
BodyFails ==
  /\ pc = "body"
  /\ parent_files' = PutFile(parent_files, ParentName(parse_url(Url)),
                             [complete |-> FALSE, body |-> NoBody])
  /\ exc' = Error("ChunkedEncodingError")
  /\ pc' = "download_failed"
  /\ UNCHANGED <<catVars, cfg, toolVars, batch, idx, dlVars, split_files, dirs, outVars,
                 fi, items>>

\* except Exception as exc: record_failure(url, exc); continue
DownloadFailed ==
  /\ pc = "download_failed"
  /\ failed_urls' = record_failure(failed_urls, Url, exc)
  /\ NextUrl(IF dl.result = "returned" THEN "transfer_failed"
             ELSE "download_failed")
  /\ UNCHANGED <<catVars, cfg, toolVars, batch, fsVars, catalog_entries, failed_file>>

\* fits.open(parent_path) of a FITS file
OpenParent ==
  /\ pc = "open"
  /\ parent_files[ParentName(parse_url(Url))].body.valid
  /\ pc' = "split"
  /\ fi' = 1
  /\ UNCHANGED <<catVars, cfg, toolVars, batch, idx, dlVars, fsVars, outVars, exc, items>>

\* fits.open(parent_path) of a file that is no FITS file raises
OpenRaises ==
  /\ pc = "open"
  /\ ~parent_files[ParentName(parse_url(Url))].body.valid
  /\ exc' = Error("OSError")
  /\ pc' = "split_failed"
  /\ UNCHANGED <<catVars, cfg, toolVars, batch, idx, dlVars, fsVars, outVars, fi, items>>

Hdul == parent_files[ParentName(parse_url(Url))].body.exts

\* the entry of the split file of the filter the loop is at
NewEntry(src, filt) ==
  _build_catalog_entry(src.sim, src.snapshot, src.subhalo, <<filt>>,
                       SplitName(src, filt), merger_cache, csv_files)

\* catalog_entries.append(...) when catalog_entries is not None
Collect(entries, src, filt) ==
  IF cfg.catalog # "none" THEN Append(entries, NewEntry(src, filt))
  ELSE entries

CacheAfterCollect(src) ==
  IF cfg.catalog # "none"
  THEN CacheAfterEntry(src.sim, src.snapshot, src.subhalo, merger_cache,
                       csv_files)
  ELSE merger_cache

FilterAbsent_Writes ==
  /\ pc = "split" /\ fi <= Len(FILTERS)
  /\ FILTERS[fi] \notin Hdul
  /\ split_files' = split_files \cup {SplitName(parse_url(Url), FILTERS[fi])}
  /\ fi' = fi + 1
  /\ items' = [items EXCEPT ![idx].nfilt = fi]
  /\ UNCHANGED <<catVars, cfg, toolVars, batch, pc, idx, dlVars, parent_files, dirs,
                 outVars, exc>>

\* no extension SUBARU_HSC.<filt>: a warning, and on to the next filter
FilterAbsent ==
  /\ pc = "split" /\ fi <= Len(FILTERS)
  /\ FILTERS[fi] \notin Hdul
  /\ fi' = fi + 1
  /\ items' = [items EXCEPT ![idx].nfilt = fi]
  /\ UNCHANGED <<catVars, cfg, toolVars, batch, pc, idx, dlVars, fsVars, outVars, exc>>

\* the extension is there: writeto(out_path) and the catalog entry
FilterWritten ==
  /\ pc = "split" /\ fi <= Len(FILTERS)
  /\ FILTERS[fi] \in Hdul
  /\ split_files' = split_files \cup {SplitName(parse_url(Url), FILTERS[fi])}
  /\ catalog_entries' = Collect(catalog_entries, parse_url(Url), FILTERS[fi])
  /\ merger_cache' = CacheAfterCollect(parse_url(Url))
  /\ fi' = fi + 1
  /\ items' = [items EXCEPT ![idx].nfilt = fi]
  /\ UNCHANGED <<catalog, catalog_writes, w_call, csv_files, cfg, toolVars, batch, pc,
                 idx, dlVars, parent_files, dirs, failed_urls, failed_file,
                 exc>>

\* the extension is there and writeto raises
FilterRaises ==
  /\ pc = "split" /\ fi <= Len(FILTERS)
  /\ FILTERS[fi] \in Hdul
  /\ exc' = Error("OSError")
  /\ pc' = "split_failed"
  /\ UNCHANGED <<catVars, cfg, toolVars, batch, idx, dlVars, fsVars, outVars, fi, items>>

SplitFailed_RemovesParent ==
  /\ pc = "split_failed"
  /\ failed_urls' = record_failure(failed_urls, Url, exc)
  /\ parent_files' = IF cfg.remove_parent
                      THEN DropFile(parent_files, ParentName(parse_url(Url)))
                      ELSE parent_files
  /\ NextUrl("split_failed")
  /\ UNCHANGED <<catVars, cfg, toolVars, batch, split_files, dirs,
                 catalog_entries, failed_file>>

\* except Exception as exc: record_failure(url, exc); continue
SplitFailed ==
  /\ pc = "split_failed"
  /\ failed_urls' = record_failure(failed_urls, Url, exc)
  /\ NextUrl("split_failed")
  /\ UNCHANGED <<catVars, cfg, toolVars, batch, fsVars, catalog_entries, failed_file>>

\* the filter loop is over: if remove_parent, os.remove is next
SplitDone ==
  /\ pc = "split" /\ fi > Len(FILTERS)
  /\ IF cfg.remove_parent
     THEN /\ pc' = "remove"
          /\ UNCHANGED <<idx, items, dlVars, fi, exc>>
     ELSE NextUrl("split")
  /\ UNCHANGED <<catVars, cfg, toolVars, batch, fsVars, outVars>>

RemoveParent_Keeps ==
  /\ pc = "remove"
  /\ NextUrl("split_removed")
  /\ UNCHANGED <<catVars, cfg, toolVars, batch, fsVars, outVars>>

\* os.remove(parent_path)
RemoveParent ==
  /\ pc = "remove"
  /\ parent_files' = DropFile(parent_files, ParentName(parse_url(Url)))
  /\ NextUrl("split_removed")
  /\ UNCHANGED <<catVars, cfg, toolVars, batch, split_files, dirs, outVars>>

\* os.remove raises OSError: a warning only
RemoveRaises ==
  /\ pc = "remove"
  /\ NextUrl("split_not_removed")
  /\ UNCHANGED <<catVars, cfg, toolVars, batch, fsVars, outVars>>

\* after the loop: the catalog is written when there is a catalog path and
\* the run is not parent-only
EndCatalog ==
  /\ pc = "loop" /\ idx > Len(batch)
  /\ IF cfg.catalog # "none" /\ ~cfg.parent_file_only
     THEN /\ WriteCatalog(_build_catalog_table(catalog_entries),
                          cfg.catalog = "append")
          /\ IF _write_catalog_table_raises(catalog, cfg.catalog = "append")
             THEN pc' = "raised" /\ exc' = Error("KeyError")
             ELSE pc' = "failed_list" /\ exc' = exc
     ELSE /\ pc' = "failed_list"
          /\ UNCHANGED <<catVars, exc>>
  /\ UNCHANGED <<cfg, toolVars, batch, idx, dlVars, fsVars, outVars, fi, items>>

\* the failed-URL list is written when failed_urls_path is given
EndFailed ==
  /\ pc = "failed_list"
  /\ IF cfg.failed # "none"
     THEN /\ dirs' = dirs \cup {FailedDirOf(cfg)}
          /\ failed_file' = [exists |-> TRUE, content |-> WriteLines(failed_urls)]
     ELSE UNCHANGED <<dirs, failed_file>>
  /\ pc' = "done"
  /\ UNCHANGED <<catVars, cfg, toolVars, batch, idx, dlVars, parent_files, split_files,
                 catalog_entries, failed_urls, fi, exc, items>>

NextPipeline ==
  \/ Setup \/ BeginUrl \/ ParseRaises
  \/ AttemptSucceeds \/ AttemptFails \/ AttemptThrows \/ RetriesExhausted
  \/ WriteBody \/ BodyFails \/ DownloadFailed
  \/ OpenParent \/ OpenRaises
  \/ FilterAbsent \/ FilterWritten \/ FilterRaises \/ SplitFailed
  \/ SplitDone \/ RemoveParent \/ RemoveRaises
  \/ EndCatalog \/ EndFailed

\* a catalog of an earlier run: a row for the G image of Url_good built when
\* there was no merger CSV, and a row of another subhalo
SrcOld == [sim |-> Str_50, snapshot |-> Str_72, subhalo |-> <<"9">>,
           version |-> Str_v2]
OldCatalog ==
  FileOf(_build_catalog_table(
           <<EntryOf(Src1, "G", NoCsv), EntryOf(SrcOld, "Y", NoCsv)>>))

PipelineCfgs ==
  [remove_parent : BOOLEAN, parent_file_only : BOOLEAN,
   catalog : {"none", "write", "append"},
   failed : {"none", "in_split_dir", "elsewhere"},
   parent_sep : BOOLEAN, max_retries : {1}, retry_backoff_sec : {2}]

InitRun ==
  /\ batch \in Batches
  /\ IdleTools
  /\ pc = "setup"
  /\ idx = 1
  /\ dl = NoDownload
  /\ response = NoBody
  /\ parent_files = <<>>
  /\ split_files = {}
  /\ dirs = {}
  /\ catalog_entries = <<>>
  /\ failed_urls = <<>>
  /\ failed_file = [exists |-> FALSE, content |-> <<>>]
  /\ fi = 1
  /\ exc = NoError
  /\ items = [i \in 1..Len(batch) |-> NewItem]
  /\ catalog_writes = 0
  /\ w_call = NoCall
  /\ merger_cache = EmptyCache

InitPipeline ==
  /\ cfg \in PipelineCfgs
  /\ catalog \in IF cfg.catalog = "none" THEN {AbsentFile}
                 ELSE {AbsentFile, OldCatalog}
  /\ csv_files = Csv50
  /\ InitRun

SpecPipeline == InitPipeline /\ [][NextPipeline]_vars

\* the retry loop under every max_retries and several backoffs, the other
\* arguments at their defaults
RetryCfgs ==
  {[DefaultCfg EXCEPT !.max_retries = m, !.retry_backoff_sec = b,
                      !.failed = "elsewhere"] :
     m \in 0..MaxRetriesBound, b \in {1, 2}}

InitRetry ==
  /\ cfg \in RetryCfgs
  /\ catalog = AbsentFile
  /\ csv_files = Csv50
  /\ InitRun

SpecRetry == InitRetry /\ [][NextPipeline]_vars

\* only catalog_append=True, from no catalog file
InitAppendOnly == InitCatalog /\ catalog = AbsentFile

CallAppend ==
  /\ catalog_writes < MaxWrites
  /\ \E table \in TablePool(csv_files) : WriteCatalog(table, TRUE)
  /\ UNCHANGED pipeVars

NextAppendOnly == CallAppend

SpecAppendOnly == InitAppendOnly /\ [][NextAppendOnly]_vars

\* ------------------------------------------ build_catalog_from_split_images
\* the characters of the modelled names, in the order of their code points
CodePoints ==
  <<".", "0", "1", "2", "3", "4", "5", "6", "7", "8", "9", "?", "A", "B",
    "C", "D", "E", "F", "G", "H", "I", "J", "K", "L", "M", "N", "O", "P",
    "Q", "R", "S", "T", "U", "V", "W", "X", "Y", "Z", "_", "a", "b", "c",
    "d", "e", "f", "g", "h", "i", "j", "k", "l", "m", "n", "o", "p", "q",
    "r", "s", "t", "u", "v", "w", "x", "y", "z">>
Ord(c) == CHOOSE i \in 1..Len(CodePoints) : CodePoints[i] = c

\* a < b for str
StrLess(a, b) ==
  \E k \in 1..(Len(a) + 1) :
    /\ k <= Len(b)
    /\ \A j \in 1..(k - 1) : a[j] = b[j]
    /\ k = Len(a) + 1 \/ Ord(a[k]) < Ord(b[k])

\* p < q for Path: the parts are compared one after the other
PathLess(p, q) ==
  \E k \in 1..(Len(p) + 1) :
    /\ k <= Len(q)
    /\ \A j \in 1..(k - 1) : p[j] = q[j]
    /\ k = Len(p) + 1 \/ StrLess(p[k], q[k])

FirstPath(S) == CHOOSE p \in S : \A q \in S \ {p} : PathLess(p, q)

\* sorted(files_iter)
RECURSIVE SortPaths(_)
SortPaths(S) ==
  IF S = {} THEN <<>>
  ELSE <<FirstPath(S)>> \o SortPaths(S \ {FirstPath(S)})

S_hsc_realistic_fits == <<"_">> \o S_hsc \o <<"_">> \o S_realistic_fits

\* the pattern '*_hsc_realistic.fits'
GlobMatches(name) ==
  /\ Len(name) >= Len(S_hsc_realistic_fits)
  /\ SubSeq(name, Len(name) - Len(S_hsc_realistic_fits) + 1, Len(name))
       = S_hsc_realistic_fits

\* split_dir.glob(pattern), or split_dir.rglob(pattern) when recursive:
\* paths relative to split_dir
GlobPaths(recursive) ==
  {<<n>> : n \in {m \in split_files : GlobMatches(m)}}
    \cup (IF recursive THEN {p \in sub_files : GlobMatches(p[2])} ELSE {})

FileName(path) == path[Len(path)]

NoScan == [seen_filenames |-> {}, catalog_entries |-> <<>>,
           merger_cache |-> EmptyCache, duplicates |-> 0, scanned |-> 0]

ScanParsed_NoSeen(acc, filename, parsed, files) ==
  IF ~parsed.matched
  THEN [acc EXCEPT !.scanned = @ + 1, !.seen_filenames = @ \cup {filename}]
  ELSE [acc EXCEPT
          !.scanned = @ + 1,
          !.catalog_entries =
             Append(@, _build_catalog_entry(parsed.sim, parsed.snapshot,
                                            parsed.subhalo, parsed.filter,
                                            filename, acc.merger_cache,
                                            files)),
          !.merger_cache =
             CacheAfterEntry(parsed.sim, parsed.snapshot, parsed.subhalo,
                             acc.merger_cache, files)]

\* the body of the loop for a name not seen before
ScanParsed(acc, filename, parsed, files) ==
  IF ~parsed.matched
  THEN [acc EXCEPT !.scanned = @ + 1, !.seen_filenames = @ \cup {filename}]
  ELSE [acc EXCEPT
          !.scanned = @ + 1,
          !.seen_filenames = @ \cup {filename},
          !.catalog_entries =
             Append(@, _build_catalog_entry(parsed.sim, parsed.snapshot,
                                            parsed.subhalo, parsed.filter,
                                            filename, acc.merger_cache,
                                            files)),
          !.merger_cache =
             CacheAfterEntry(parsed.sim, parsed.snapshot, parsed.subhalo,
                             acc.merger_cache, files)]

\* the body of the loop
ScanFile(acc, filename, files) ==
  IF filename \in acc.seen_filenames
  THEN [acc EXCEPT !.scanned = @ + 1, !.duplicates = @ + 1]
  ELSE ScanParsed(acc, filename, _parse_split_filename(filename), files)

\* for file_path in sorted(files_iter)
RECURSIVE Scan(_, _, _)
Scan(paths, acc, files) ==
  IF paths = <<>> THEN acc
  ELSE Scan(Tail(paths), ScanFile(acc, FileName(Head(paths)), files), files)

ScanOf(recursive) == Scan(SortPaths(GlobPaths(recursive)), NoScan, csv_files)

\* build_catalog_from_split_images(split_output_dir, catalog_path,
\* catalog_append, merger_history_dir, recursive) on an existing directory
RebuildFrom(scan, recursive, append) ==
  /\ WriteCatalogWith(_build_catalog_table(scan.catalog_entries), append,
                      scan.merger_cache)
  /\ rebuild' = [done |-> TRUE, recursive |-> recursive,
                 scanned |-> scan.scanned, duplicates |-> scan.duplicates]

Rebuild(recursive, append) ==
  \E scan \in {ScanOf(recursive)} : RebuildFrom(scan, recursive, append)

\* names in the directory: two split files of one subhalo, a name with the
\* suffix that the codec rejects, a file of another kind
S_notes_txt == <<"n", "o", "t", "e", "s", ".", "t", "x", "t">>
NamePool ==
  {SplitName(Src1, "G"), SplitName(Src1, "R"), SplitName(Src2, "G"),
   S_notes_txt}
\* subdirectories: "0" sorts before the split files of TNG50, "a" after
SubPathPool ==
  {<<<<"0">>, SplitName(Src1, "R")>>, <<<<"a">>, SplitName(Src1, "G")>>,
   <<<<"a">>, SplitName(Src2, "G")>>}

InitRebuild ==
  /\ catalog \in {AbsentFile, LegacyCatalog}
  /\ catalog_writes = 0
  /\ w_call = NoCall
  /\ csv_files \in CsvChoices
  /\ merger_cache = EmptyCache
  /\ IdleLoop
  /\ split_files \in SUBSET NamePool
  /\ sub_files \in SUBSET SubPathPool
  /\ rebuild = NoRebuild
  /\ fetch = NoFetch

CallRebuild ==
  /\ catalog_writes < MaxWrites
  /\ \E recursive \in BOOLEAN, append \in BOOLEAN : Rebuild(recursive, append)
  /\ UNCHANGED <<cfg, sub_files, fetch, batch, pc, idx, dl, response,
                 parent_files, split_files, dirs, catalog_entries, failed_urls,
                 failed_file, fi, exc, items>>

NextRebuild == CallRebuild

SpecRebuild == InitRebuild /\ [][NextRebuild]_vars

\* ------------------------------------- the pipeline, then the rebuild over it
\* a run that writes a catalog of its own, not parent-only
InitRoundTrip ==
  /\ InitPipeline
  /\ cfg.catalog = "write"
  /\ ~cfg.parent_file_only

\* build_catalog_from_split_images(split_output_dir, catalog_path,
\* catalog_append=False) once the run is over, with the same merger CSVs
RebuildAfterRun ==
  /\ pc = "done" /\ ~rebuild.done
  /\ \E recursive \in BOOLEAN : Rebuild(recursive, FALSE)
  /\ UNCHANGED <<cfg, sub_files, fetch, batch, pc, idx, dl, response,
                 parent_files, split_files, dirs, catalog_entries, failed_urls,
                 failed_file, fi, exc, items>>

NextRoundTrip == NextPipeline \/ RebuildAfterRun

SpecRoundTrip == InitRoundTrip /\ [][NextRoundTrip]_vars

\* ---------------------------------------------------------- make_list_of_urls
\* BASE_API_URL + ENDING, the entries of the listing the API returns, the
\* SNAPSHOT_FILTER values and the files arrays an entry can answer with
S_listing_url == <<"h", "/", "a", "/">>
Entry_r91 == <<"h", "/", "r", "_", "v", "2", "_", "9", "1">>
Entry_r72 == <<"h", "/", "r", "_", "v", "2", "_", "7", "2">>
Entry_i91 == <<"h", "/", "i", "_", "v", "2", "_", "9", "1">>
ListingEntries == {Entry_r91, Entry_r72, Entry_i91}
SnapshotFilters == {<<"_", "v", "2", "_", "9", "1">>, <<"r", "_", "v">>}
FilesArrays ==
  {<<>>, <<<<"f", "1">>, <<"f", "2">>>>, <<<<"f", "3">>>>}

Contains_Always(sub, u) == TRUE

\* sub in u
Contains(sub, u) ==
  sub = <<>> \/ \E i \in 1..Len(u) : HasPrefixAt(u, sub, i)

\* [u for u in snapshot_urls if SNAPSHOT_FILTER in u]
Filtered(snapshot_urls, snapshot_filter) ==
  SelectSeq(snapshot_urls, LAMBDA u : Contains(snapshot_filter, u))

InitFetch ==
  /\ catalog = AbsentFile
  /\ catalog_writes = 0
  /\ w_call = NoCall
  /\ csv_files = NoCsv
  /\ merger_cache = EmptyCache
  /\ IdleLoop
  /\ split_files = {}
  /\ sub_files = {}
  /\ rebuild = NoRebuild
  /\ \E listing \in SeqsUpTo(ListingEntries, MaxListing),
        snapshot_filter \in SnapshotFilters :
       fetch = [NoFetch EXCEPT !.pc = "listing", !.listing = listing,
                               !.filter = snapshot_filter]

FetchUnchanged ==
  UNCHANGED <<catVars, cfg, sub_files, rebuild, batch, pc, idx, dl, response,
              parent_files, split_files, dirs, catalog_entries, failed_urls,
              failed_file, fi, exc, items>>

Get(url, ok, files) == [url |-> url, ok |-> ok, files |-> files]

\* snapshot_urls = get_endpoint(BASE_API_URL + ENDING), and the filter
ListingOk ==
  /\ fetch.pc = "listing"
  /\ fetch' = [fetch EXCEPT
                 !.gets = Append(@, Get(S_listing_url, TRUE, <<>>)),
                 !.filtered = Filtered(fetch.listing, fetch.filter),
                 !.pc = "entries"]
  /\ FetchUnchanged

\* r.raise_for_status() raises for the listing
ListingFails ==
  /\ fetch.pc = "listing"
  /\ fetch' = [fetch EXCEPT
                 !.gets = Append(@, Get(S_listing_url, FALSE, <<>>)),
                 !.pc = "raised"]
  /\ FetchUnchanged

\* all_urls += get_endpoint(url)['files']
EntryOk ==
  /\ fetch.pc = "entries" /\ fetch.i <= Len(fetch.filtered)
  /\ \E files \in FilesArrays :
       fetch' = [fetch EXCEPT
                   !.gets = Append(@, Get(fetch.filtered[fetch.i], TRUE,
                                          files)),
                   !.all_urls = @ \o files,
                   !.i = @ + 1]
  /\ FetchUnchanged

\* r.raise_for_status() raises for an entry
EntryFails ==
  /\ fetch.pc = "entries" /\ fetch.i <= Len(fetch.filtered)
  /\ fetch' = [fetch EXCEPT
                 !.gets = Append(@, Get(fetch.filtered[fetch.i], FALSE,
                                        <<>>)),
                 !.pc = "raised"]
  /\ FetchUnchanged

\* with open('all_file_urls.txt', 'w') as f: one line per URL
WriteUrlList ==
  /\ fetch.pc = "entries" /\ fetch.i > Len(fetch.filtered)
  /\ fetch' = [fetch EXCEPT
                 !.out = [exists |-> TRUE, content |-> WriteLines(fetch.all_urls)],
                 !.pc = "done"]
  /\ FetchUnchanged

NextFetch ==
  ListingOk \/ ListingFails \/ EntryOk \/ EntryFails \/ WriteUrlList

SpecFetch == InitFetch /\ [][NextFetch]_vars

\* ------------------------------------------------ the entry builder alone
\* texts that reach _build_catalog_entry as sim, snapshot and subhalo: from
\* parse_url any part of a URL, from _parse_split_filename runs of digits
SimTexts == {Str_50, S_TNG_unknown, <<"0", "5", "0">>}
SnapshotTexts == {Str_72, <<"0", "7", "2">>, <<"x">>, <<"-", "5">>}
SubhaloTexts == {Str_3, <<"9">>, <<>>}

EntryInputs ==
  [sim : SimTexts, snapshot : SnapshotTexts, subhalo : SubhaloTexts,
   version : {Str_v2}]

InitEntry ==
  /\ catalog = AbsentFile
  /\ catalog_writes = 0
  /\ w_call = NoCall
  /\ csv_files \in CsvChoices
  /\ merger_cache = EmptyCache
  /\ IdlePipeline

\* one call of _build_catalog_entry with the cache of the run, the entry
\* appended to catalog_entries
BuildEntry ==
  /\ Len(catalog_entries) < MaxEntries
  /\ \E src \in EntryInputs :
       /\ catalog_entries' = Append(catalog_entries, NewEntry(src, "G"))
       /\ merger_cache' =
            CacheAfterEntry(src.sim, src.snapshot, src.subhalo, merger_cache,
                            csv_files)
  /\ UNCHANGED <<catalog, catalog_writes, w_call, csv_files, cfg, toolVars, batch, pc,
                 idx, dl, response, parent_files, split_files, dirs,
                 failed_urls, failed_file, fi, exc, items>>

NextEntry == BuildEntry

SpecEntry == InitEntry /\ [][NextEntry]_vars

\* URLs of two snapshots next to each other, with subhalo numbers below and
\* from 1000000 on, in two simulations
S_100 == <<"1", "0", "0">>
S_71 == <<"7", "1">>
S_1000003 == <<"1", "0", "0", "0", "0", "0", "3">>
WideInputs ==
  [sim : {Str_50, S_100}, snapshot : {Str_72, S_71},
   subhalo : {Str_3, <<"9">>, S_1000003}, version : {Str_v2}]

\* one call of _build_catalog_entry for such a URL
BuildWideEntry ==
  /\ Len(catalog_entries) < MaxEntries
  /\ \E src \in WideInputs :
       /\ catalog_entries' = Append(catalog_entries, NewEntry(src, "G"))
       /\ merger_cache' =
            CacheAfterEntry(src.sim, src.snapshot, src.subhalo, merger_cache,
                            csv_files)
  /\ UNCHANGED <<catalog, catalog_writes, w_call, csv_files, cfg, toolVars, batch, pc,
                 idx, dl, response, parent_files, split_files, dirs,
                 failed_urls, failed_file, fi, exc, items>>

NextObjectId == BuildWideEntry

SpecObjectId == InitEntry /\ [][NextObjectId]_vars

\* the merger CSV appears, changes or goes away while the run goes on
ChangeCsv ==
  /\ \E files \in CsvChoices \ {csv_files} : csv_files' = files
  /\ UNCHANGED <<catalog, catalog_writes, w_call, merger_cache, pipeVars>>

NextCache == BuildEntry \/ ChangeCsv

SpecCache == InitEntry /\ [][NextCache]_vars

\* ------------------------------------------------------- catalog properties
DistinctFilenames(rows) ==
  \A i, j \in 1..Len(rows) :
    i # j => rows[i]["filename"] # rows[j]["filename"]

WroteLast == catalog_writes >= 1 /\ ~w_call.raised

\* C1: writing a table E of pairwise distinct filenames leaves exactly E when
\* it does not merge (no catalog at the path, or catalog_append=False), and
\* writing E with catalog_append=True onto a catalog that is exactly E leaves
\* exactly the rows of E again, each filename once; so does every repetition.
C1_AppendIdempotent ==
  WroteLast =>
    /\ (~(w_call.append /\ w_call.existing.exists)
          => catalog = FileOf(w_call.table))
    /\ (/\ w_call.append
        /\ w_call.existing = FileOf(w_call.table)
        /\ DistinctFilenames(w_call.table.rows))
          => /\ catalog.rows = w_call.table.rows
             /\ catalog.cols = w_call.table.cols
             /\ DistinctFilenames(catalog.rows)

\* the second write of the same two entries, with catalog_append=True
C1_Witness ==
  /\ WroteLast
  /\ catalog_writes >= 2
  /\ w_call.append
  /\ w_call.existing = FileOf(w_call.table)
  /\ Len(w_call.table.rows) = 2
  /\ DistinctFilenames(w_call.table.rows)

\* C2: after catalog writes with catalog_append=True that start from no
\* catalog file, no two rows of the catalog have the same filename.
C2_UniqueFilenames == catalog.exists => DistinctFilenames(catalog.rows)

\* C3: an append over an existing catalog keeps every existing row, in order
\* and with its values, drops the incoming rows whose filename the catalog
\* has, and puts the other incoming rows after them in their own order.
C3_ExistingRowsWin ==
  (WroteLast /\ w_call.append /\ w_call.existing.exists) =>
    LET ex == w_call.existing
        inc == w_call.table
        names == {ex.rows[i]["filename"] : i \in 1..Len(ex.rows)}
        kept == SelectSeq(inc.rows, LAMBDA r : r["filename"] \notin names)
        n == Len(ex.rows)
    IN /\ Len(catalog.rows) = n + Len(kept)
       /\ \A i \in 1..n : \A c \in SeqToSet(ex.cols) :
            catalog.rows[i][c] = ex.rows[i][c]
       /\ \A j \in 1..Len(kept) : \A c \in SeqToSet(inc.cols) :
            catalog.rows[n + j][c] = kept[j][c]

\* an append over the two-row legacy catalog: one incoming row dropped, one kept
C3_Witness ==
  /\ WroteLast /\ w_call.append
  /\ w_call.existing = LegacyCatalog
  /\ Len(w_call.table.rows) = 2
  /\ Len(catalog.rows) = 3

\* ------------------------------------------------------ pipeline properties
Items == 1..Len(batch)
Src(i) == parse_url(URLS[batch[i]])
SameUrlElsewhere(i) == \E j \in Items \ {i} : batch[j] = batch[i]
Recorded(i) ==
  \E k \in 1..Len(failed_urls) :
    failed_urls[k] = FailedLine(URLS[batch[i]], items[i].err)
DownloadEndedInFailure(i) ==
  items[i].state \in {"download_failed", "transfer_failed"}
NoSplitFileOf(i) ==
  \A f \in SeqToSet(FILTERS) : SplitName(Src(i), f) \notin split_files
MovedPast(i) ==
  /\ idx > i
  /\ pc \in {"failed_list", "done"} =>
       \A j \in Items : j > i => items[j].state # "pending"

\* C4: the download step of a URL makes at most max_retries requests and
\* makes none after the one that succeeds; the k-th failed attempt is followed
\* by a sleep of retry_backoff_sec * k, except the last allowed attempt, which
\* is followed by none; when all max_retries attempts failed, the exception
\* raised is the one of attempt max_retries.
C4_LinearBackoff ==
  /\ dl.requests <= cfg.max_retries
  /\ dl.result = "returned" =>
       /\ pc # "download"
       /\ dl.requests = dl.attempt
       /\ Len(dl.sleeps) = dl.attempt - 1
  /\ \A k \in 1..Len(dl.sleeps) : dl.sleeps[k] = cfg.retry_backoff_sec * k
  /\ Len(dl.sleeps) = IF dl.attempt <= cfg.max_retries THEN dl.attempt - 1
                      ELSE IF cfg.max_retries >= 1 THEN cfg.max_retries - 1
                      ELSE 0
  /\ (/\ pc = "download_failed" /\ dl.result = "raised"
      /\ dl.attempt > cfg.max_retries /\ cfg.max_retries >= 1)
        => /\ exc = RequestError(cfg.max_retries)
           /\ dl.requests = cfg.max_retries

\* three attempts of three failed: two sleeps, 2 s and 4 s, the third error
C4_Witness ==
  /\ pc = "download_failed" /\ dl.result = "raised"
  /\ cfg.max_retries = 3 /\ cfg.retry_backoff_sec = 2
  /\ dl.requests = 3
  /\ dl.sleeps = <<2, 4>>
  /\ exc = RequestError(3)

\* C5 as stated: a URL whose download step ended in failure (every attempt
\* failed, or the transfer failed while the body was written) is in the
\* failed-URL list with its error, has no parent file and no split file, and
\* the loop went on to the URLs after it.
C5_NoFilesAfterFailedDownload ==
  \A i \in Items :
    (DownloadEndedInFailure(i) /\ ~SameUrlElsewhere(i)) =>
      /\ items[i].err # NoError
      /\ cfg.failed # "none" => Recorded(i)
      /\ ParentName(Src(i)) \notin DOMAIN parent_files
      /\ NoSplitFileOf(i)
      /\ MovedPast(i)

\* C5 amended: a URL whose download step ended in failure is in the failed-URL
\* list with its error when a failed-URL path is configured, has no split
\* file, and the loop went on to the URLs after it; it has no parent file
\* when every attempt failed, and it has the partially written parent file
\* when the transfer failed while the body was written.
C5_PartialParentStays ==
  \A i \in Items :
    (DownloadEndedInFailure(i) /\ ~SameUrlElsewhere(i)) =>
      /\ items[i].err # NoError
      /\ cfg.failed # "none" => Recorded(i)
      /\ items[i].state = "download_failed" =>
           ParentName(Src(i)) \notin DOMAIN parent_files
      /\ items[i].state = "transfer_failed" =>
           /\ ParentName(Src(i)) \in DOMAIN parent_files
           /\ ~parent_files[ParentName(Src(i))].complete
      /\ NoSplitFileOf(i)
      /\ MovedPast(i)

\* a batch of two URLs: every attempt of the first failed, the transfer of
\* the second broke; both are in the failed-URL file
C5_Witness ==
  /\ pc = "done" /\ Len(batch) = 2 /\ batch[1] # batch[2]
  /\ items[1].state = "download_failed"
  /\ items[2].state = "transfer_failed"
  /\ failed_file.exists /\ Len(failed_urls) = 2

TerminalStates ==
  {"downloaded", "split", "split_removed", "split_not_removed",
   "download_failed", "transfer_failed", "split_failed"}

\* C6: after the setup the run never ends by an exception, whatever URLs the
\* batch holds, and when it is over every URL of the batch is in a terminal
\* state (processed, or failed and recorded).
C6_BatchNeverRaises ==
  /\ pc # "raised"
  /\ pc = "done" => \A i \in Items : items[i].state \in TerminalStates

\* the filters of item i that its split loop found and wrote, in loop order
WrittenFilters(i) ==
  SelectSeq(SubSeq(FILTERS, 1, items[i].nfilt),
            LAMBDA f : f \in items[i].body.exts)

\* filename and filter of the entries item i must have collected
ExpectedOf(i) ==
  IF items[i].nfilt = 0 THEN <<>>
  ELSE [k \in 1..Len(WrittenFilters(i)) |->
          <<SplitName(Src(i), WrittenFilters(i)[k]), <<WrittenFilters(i)[k]>>>>]

RECURSIVE ExpectedUpTo(_)
ExpectedUpTo(n) ==
  IF n = 0 THEN <<>> ELSE ExpectedUpTo(n - 1) \o ExpectedOf(n)

CollectedKeys ==
  [k \in 1..Len(catalog_entries) |->
     <<catalog_entries[k]["filename"], catalog_entries[k]["filter"]>>]

SplitCompleted(i) ==
  items[i].state \in {"split", "split_removed", "split_not_removed"}

EntriesAsCollected ==
  CollectedKeys = IF cfg.catalog = "none" THEN <<>>
                  ELSE ExpectedUpTo(Len(batch))

\* C7: a URL whose split completed went through the five filters; it has a
\* split file for every filter of G, R, I, Z, Y that its parent file has as
\* an extension, and a split file of a filter the parent lacks can only come
\* from another item of the same URL; the collected entries are, item after
\* item, one per written split file in the order G, R, I, Z, Y (none without
\* a catalog path); a split fails only at fits.open or at a write of a filter
\* that is there, never at an absent filter.
C7_OnePerPresentFilter ==
  /\ \A i \in Items : SplitCompleted(i) =>
       /\ items[i].nfilt = Len(FILTERS)
       /\ items[i].body.valid
       /\ items[i].err = NoError
       /\ \A f \in SeqToSet(FILTERS) :
            /\ f \in items[i].body.exts =>
                 SplitName(Src(i), f) \in split_files
            /\ (f \notin items[i].body.exts
                  /\ SplitName(Src(i), f) \in split_files) =>
                 \E j \in Items \ {i} :
                   batch[j] = batch[i] /\ f \in items[j].body.exts
  /\ EntriesAsCollected
  /\ \A i \in Items : items[i].state = "split_failed" =>
       \/ ~items[i].body.valid
       \/ /\ items[i].nfilt < Len(FILTERS)
          /\ FILTERS[items[i].nfilt + 1] \in items[i].body.exts

\* a parent with R and Y only, then a parent with no filter at all: two
\* split files, two entries (R before Y), no failure
C7_Witness ==
  /\ pc = "done" /\ Len(batch) = 2 /\ batch[1] # batch[2]
  /\ cfg.catalog = "write" /\ cfg.failed # "none"
  /\ items[1].state = "split" /\ items[1].body.exts = {"R", "Y"}
  /\ items[2].state = "split" /\ items[2].body.valid
  /\ items[2].body.exts = {}
  /\ Cardinality(split_files) = 2
  /\ Len(catalog_entries) = 2
  /\ catalog_entries[1]["filter"] = <<"R">>
  /\ catalog_entries[2]["filter"] = <<"Y">>
  /\ failed_urls = <<>>

FailedItems ==
  {i \in Items : items[i].state \in
                   {"download_failed", "transfer_failed", "split_failed"}}

DownloadedLater(i) ==
  \E j \in Items : j > i /\ batch[j] = batch[i] /\ items[j].state # "pending"

\* C8: with remove_parent and not parent-only, a URL whose split completed
\* went through os.remove, and when that succeeded its parent file is absent
\* (until a later item of the same URL downloads it again); when os.remove
\* failed, the URL has no error and no line in the failed list, and its split
\* files and entries are still there; without remove_parent the parent file
\* of every URL whose download succeeded is on disk.
C8_ParentRemoval ==
  /\ \A i \in Items :
       /\ items[i].state = "split" => ~cfg.remove_parent
       /\ items[i].state \in {"split_removed", "split_not_removed"} =>
            cfg.remove_parent /\ ~cfg.parent_file_only
       /\ (items[i].state = "split_removed" /\ ~DownloadedLater(i)) =>
            ParentName(Src(i)) \notin DOMAIN parent_files
       /\ items[i].state = "split_not_removed" =>
            /\ items[i].err = NoError
            /\ ~DownloadedLater(i) =>
                 ParentName(Src(i)) \in DOMAIN parent_files
            /\ \A f \in items[i].body.exts :
                 SplitName(Src(i), f) \in split_files
       /\ (~cfg.remove_parent
            /\ items[i].state \in {"downloaded", "splitting", "split",
                                    "split_failed"}) =>
            ParentName(Src(i)) \in DOMAIN parent_files
  /\ Len(failed_urls) =
       IF cfg.failed = "none" THEN 0 ELSE Cardinality(FailedItems)
  /\ EntriesAsCollected

\* the parent of the first URL is removed, the removal of the second fails:
\* its parent and its two split files stay, nothing is recorded as failed
C8_Witness ==
  /\ pc = "done" /\ Len(batch) = 2 /\ batch[1] # batch[2]
  /\ cfg.remove_parent /\ cfg.catalog = "write" /\ cfg.failed # "none"
  /\ items[1].state = "split_removed"
  /\ items[1].body.exts = {"R", "Y"}
  /\ ParentName(Src(1)) \notin DOMAIN parent_files
  /\ items[2].state = "split_not_removed"
  /\ items[2].body.exts = {"R", "Y"}
  /\ ParentName(Src(2)) \in DOMAIN parent_files
  /\ Len(catalog_entries) = 4
  /\ failed_file.exists /\ failed_file.content = <<>>

ParentsOfDownloadedStay ==
  \A i \in Items : items[i].state = "downloaded" =>
    /\ ParentName(Src(i)) \in DOMAIN parent_files
    /\ ~SameUrlElsewhere(i) => parent_files[ParentName(Src(i))].complete

\* C9 as stated: with parent_file_only no split file is written, the split
\* directory is not created when the parent directory is a separate one, no
\* catalog is written, and the parent file of every downloaded URL stays.
C9_ParentOnlyNoSplitDir ==
  cfg.parent_file_only =>
    /\ split_files = {}
    /\ cfg.parent_sep => "split_dir" \notin dirs
    /\ catalog_writes = 0 /\ catalog_entries = <<>>
    /\ \A i \in Items : ~SplitCompleted(i) /\ items[i].state # "splitting"
    /\ ParentsOfDownloadedStay

\* C9 amended: as above, but the split directory is created all the same
\* when the failed-URL file is to be written into it.
C9_ParentOnlySplitDirForFailedList ==
  cfg.parent_file_only =>
    /\ split_files = {}
    /\ (cfg.parent_sep /\ cfg.failed # "in_split_dir") =>
         "split_dir" \notin dirs
    /\ (cfg.parent_sep /\ "split_dir" \in dirs) =>
         pc = "done" /\ failed_file.exists
    /\ catalog_writes = 0 /\ catalog_entries = <<>>
    /\ \A i \in Items : ~SplitCompleted(i) /\ items[i].state # "splitting"
    /\ ParentsOfDownloadedStay

\* a parent-only run with a catalog path, remove_parent and a separate
\* parent directory: the parent is there, no catalog, no split directory
C9_Witness ==
  /\ pc = "done" /\ cfg.parent_file_only /\ cfg.parent_sep
  /\ cfg.remove_parent /\ cfg.catalog = "write"
  /\ cfg.failed = "elsewhere"
  /\ Len(batch) = 1 /\ items[1].state = "downloaded"
  /\ ParentName(Src(1)) \in DOMAIN parent_files
  /\ "split_dir" \notin dirs
  /\ ~catalog.exists

RunOver == pc \in {"done", "raised"}

\* C10: while the loop runs the catalog file is not written; when the run is
\* over it has been written once if there is a catalog path and the run is
\* not parent-only, and not at all otherwise; with catalog_append=False the
\* file is then the table of the entries collected in this run.
C10_CatalogWrittenOnceAtEnd ==
  /\ pc \notin {"failed_list", "done"} => catalog_writes = 0
  /\ RunOver =>
       catalog_writes = IF cfg.catalog # "none" /\ ~cfg.parent_file_only
                        THEN 1 ELSE 0
  /\ (catalog_writes = 1 /\ cfg.catalog = "write") =>
       catalog = FileOf(_build_catalog_table(catalog_entries))

\* the lines read back from the failed-URL file, each cut at its tab
FileLines(content) ==
  IF content = <<>> THEN <<>>
  ELSE SubSeq(SplitOn(content, "\n"), 1, Len(SplitOn(content, "\n")) - 1)

ReadFailedFile ==
  [k \in 1..Len(FileLines(failed_file.content)) |->
     SplitOn(FileLines(failed_file.content)[k], "\t")]

\* URL and error text of the items up to n that ended in a failed state
RECURSIVE FailedUpTo(_)
FailedUpTo(n) ==
  IF n = 0 THEN <<>>
  ELSE IF n \in FailedItems
       THEN Append(FailedUpTo(n - 1),
                   <<URLS[batch[n]], ErrorText(items[n].err)>>)
       ELSE FailedUpTo(n - 1)

\* C11: the failed-URL file is written only when a failed-URL path is
\* configured, and its lines are then, in batch order, the URL and the error
\* text of each batch item that ended in a failed state (download, transfer
\* or split failure), one line per such item and no other line.
C11_FailedFileLines ==
  /\ failed_file.exists =>
       /\ cfg.failed # "none"
       /\ ReadFailedFile = FailedUpTo(Len(batch))
       /\ Len(ReadFailedFile) = Cardinality(FailedItems)
  /\ \A i \in Items : i \in FailedItems => items[i].err # NoError
  /\ \A i \in Items : i \notin FailedItems => items[i].err = NoError

\* the same URL twice: its download fails the first time and its split the
\* second time; two lines, in that order
C11_Witness ==
  /\ pc = "done" /\ failed_file.exists
  /\ Len(batch) = 2 /\ batch[1] = batch[2]
  /\ items[1].state = "download_failed"
  /\ items[2].state = "split_failed"
  /\ Len(ReadFailedFile) = 2
  /\ ReadFailedFile[1][2] # ReadFailedFile[2][2]

Entries == {catalog_entries[k] : k \in 1..Len(catalog_entries)}

\* C12: in every entry built, object_id is snapshot * 1000000 + subhalo when
\* the entry's snapshot and subhalo are both >= 0 and -1 otherwise, and dbid
\* is the text "<snapshot>_<subhalo>" when both are >= 0 and empty otherwise.
C12_IdentifierInvariant ==
  \A e \in Entries :
    IF e["snapshot"] >= 0 /\ e["subhalo"] >= 0
    THEN /\ e["object_id"] = e["snapshot"] * 1000000 + e["subhalo"]
         /\ e["dbid"] = NatToStr(e["snapshot"]) \o <<"_">>
                           \o NatToStr(e["subhalo"])
    ELSE e["object_id"] = -1 /\ e["dbid"] = <<>>

\* an entry of snapshot 72, subhalo 3 and one with a negative snapshot
C12_Witness ==
  /\ Len(catalog_entries) = 2
  /\ catalog_entries[1]["object_id"] = 72000003
  /\ catalog_entries[1]["dbid"] = <<"7", "2", "_", "3">>
  /\ catalog_entries[2]["snapshot"] = -5
  /\ catalog_entries[2]["subhalo"] = 9
  /\ catalog_entries[2]["object_id"] = -1
  /\ catalog_entries[2]["dbid"] = <<>>

HAS_COLUMNS ==
  <<"has_major_past_1gyr", "has_major_future_1gyr", "has_minor_past_1gyr",
    "has_minor_future_1gyr", "has_mini_past_1gyr", "has_mini_future_1gyr">>
COUNT_COLUMNS ==
  <<"major_count_since_1gyr", "major_count_until_1gyr",
    "minor_count_since_1gyr", "minor_count_until_1gyr",
    "mini_count_since_1gyr", "mini_count_until_1gyr">>
TIME_COLUMNS ==
  <<"major_time_since_merger", "major_time_until_merger",
    "minor_time_since_merger", "minor_time_until_merger",
    "mini_time_since_merger", "mini_time_until_merger">>

Resolved(e) == e["sim"] >= 0 /\ e["dbid"] # <<>>
SimKey(e) == NatToStr(e["sim"])

\* the row of the CSV of the entry's simulation that is keyed by its dbid
CsvRowOf(e) ==
  LET rows == csv_files[SimKey(e)]
      i == CHOOSE i \in 1..Len(rows) :
             /\ RowGet(rows[i], "dbID") = e["dbid"]
             /\ \A j \in (i + 1)..Len(rows) :
                  RowGet(rows[j], "dbID") # e["dbid"]
  IN rows[i]

HasCsvRow(e) ==
  /\ Resolved(e)
  /\ SimKey(e) \in DOMAIN merger_cache
  /\ e["dbid"] \in DOMAIN merger_cache[SimKey(e)]

\* C13: an entry has has_merger_row exactly when its sim and dbid are
\* resolved and the mapping loaded for its sim has its dbid; then each count
\* and time is the coerced field of that CSV row (a count that is no number
\* is 0, a time that is no number is -1.0) and each has_*_1gyr is count > 0;
\* otherwise the 18 label fields are False, 0 and -1.0.
C13_MergerLabels ==
  \A e \in Entries :
    /\ Resolved(e) => SimKey(e) \in DOMAIN merger_cache
    /\ e["has_merger_row"] = HasCsvRow(e)
    /\ e["has_merger_row"] =>
         \A k \in 1..6 :
           /\ e[COUNT_COLUMNS[k]] =
                _safe_int(RowGet(CsvRowOf(e), RAW_COUNT_COLUMNS[k]), 0)
           /\ e[HAS_COLUMNS[k]] = (e[COUNT_COLUMNS[k]] > 0)
           /\ e[TIME_COLUMNS[k]] =
                _safe_float(RowGet(CsvRowOf(e), RAW_TIME_COLUMNS[k]),
                            Float(-10))
    /\ ~e["has_merger_row"] =>
         \A k \in 1..6 :
           /\ e[COUNT_COLUMNS[k]] = 0
           /\ e[HAS_COLUMNS[k]] = FALSE
           /\ e[TIME_COLUMNS[k]] = Float(-10)

\* the row 72_3 of the TNG50 CSV: counts "2", "1.7", "na" and a missing one,
\* times "0.4" and "x"; and an entry of the same simulation without a row
C13_Witness ==
  /\ Len(catalog_entries) = 2
  /\ catalog_entries[1]["has_merger_row"]
  /\ catalog_entries[1]["major_count_since_1gyr"] = 2
  /\ catalog_entries[1]["has_major_past_1gyr"]
  /\ catalog_entries[1]["major_count_until_1gyr"] = 1
  /\ catalog_entries[1]["minor_count_until_1gyr"] = 0
  /\ ~catalog_entries[1]["has_minor_future_1gyr"]
  /\ catalog_entries[1]["mini_count_until_1gyr"] = 0
  /\ catalog_entries[1]["major_time_since_merger"] = Float(4)
  /\ catalog_entries[1]["major_time_until_merger"] = Float(-10)
  /\ catalog_entries[2]["sim"] = 50
  /\ catalog_entries[2]["dbid"] = <<"7", "2", "_", "9">>
  /\ ~catalog_entries[2]["has_merger_row"]

\* the entry a step has appended to catalog_entries
Built == catalog_entries'[Len(catalog_entries')]

\* C14: a mapping that is in the cache stays as it is, whatever happens to
\* the CSV; a mapping enters the cache only in the step that builds an entry
\* with a resolved sim and dbid for a simulation not cached yet, and it is
\* what the CSV holds at that moment (empty without a CSV); an entry of a
\* cached simulation gets its labels from the cached mapping; an entry with
\* an unresolved sim or an empty dbid leaves the cache alone.
C14_LoadedOncePerSim ==
  [][/\ \A k \in DOMAIN merger_cache :
          k \in DOMAIN merger_cache' /\ merger_cache'[k] = merger_cache[k]
     /\ \A k \in DOMAIN merger_cache' \ DOMAIN merger_cache :
          /\ Len(catalog_entries') = Len(catalog_entries) + 1
          /\ Resolved(Built) /\ SimKey(Built) = k
          /\ merger_cache'[k] = _load_merger_rows(k, csv_files)
          /\ DOMAIN merger_cache' = DOMAIN merger_cache \cup {k}
     /\ Len(catalog_entries') = Len(catalog_entries) + 1 =>
          IF Resolved(Built)
          THEN /\ SimKey(Built) \in DOMAIN merger_cache'
               /\ SimKey(Built) \in DOMAIN merger_cache =>
                    Built["has_merger_row"] =
                      (Built["dbid"] \in DOMAIN merger_cache[SimKey(Built)])
          ELSE merger_cache' = merger_cache
    ]_vars

\* two entries of TNG50 around a change of the CSV: the cached mapping is
\* not what the CSV holds now, and the second entry follows the cache
C14_Witness ==
  /\ Len(catalog_entries) = 2
  /\ Resolved(catalog_entries[1]) /\ Resolved(catalog_entries[2])
  /\ catalog_entries[1]["sim"] = 50 /\ catalog_entries[2]["sim"] = 50
  /\ catalog_entries[1]["dbid"] = <<"7", "2", "_", "3">>
  /\ catalog_entries[2]["dbid"] = <<"7", "2", "_", "3">>
  /\ merger_cache[<<"5", "0">>] = <<>>
  /\ csv_files = Csv50
  /\ ~catalog_entries[2]["has_merger_row"]

\* what the codec returns for a name, next to what the name was formed from
RoundTrips(src, filt) ==
  /\ _parse_split_filename(SplitName(src, filt)).matched
  /\ _parse_split_filename(SplitName(src, filt)) =
       [matched |-> TRUE, sim |-> src.sim, snapshot |-> src.snapshot,
        subhalo |-> src.subhalo, filter |-> <<filt>>]

\* C15: every split file the pipeline has written for a URL of the batch has
\* a name that _parse_split_filename accepts, and the sim, snapshot, subhalo
\* and filter it returns are those the name was formed from.
C15_SplitNamesRoundTrip ==
  \A i \in Items : items[i].nfilt > 0 =>
    \A k \in 1..Len(WrittenFilters(i)) :
      RoundTrips(Src(i), WrittenFilters(i)[k])

\* the files the last rebuild had before it, as paths below split_output_dir
ScannedPaths ==
  {<<n>> : n \in split_files}
    \cup (IF rebuild.recursive THEN sub_files ELSE {})

ValidNames ==
  {FileName(p) : p \in {q \in ScannedPaths :
                          _parse_split_filename(FileName(q)).matched}}

\* the first path, in sorted order, that has the name
FirstPathOf(name) == FirstPath({p \in ScannedPaths : FileName(p) = name})

\* C16: a rebuild with catalog_append=False raises nothing and leaves a
\* catalog with one row for each distinct name of the scanned files (the top
\* level, or the whole tree when recursive) that the codec parses, no row
\* for any other name and none for a name met again, the rows in the sorted
\* order of the paths where each name is met first.
C16_RebuildRows ==
  (rebuild.done /\ ~w_call.append) =>
    /\ ~w_call.raised
    /\ catalog.exists
    /\ Len(catalog.rows) = Cardinality(ValidNames)
    /\ {catalog.rows[i]["filename"] : i \in 1..Len(catalog.rows)} = ValidNames
    /\ \A i, j \in 1..Len(catalog.rows) :
         i < j => PathLess(FirstPathOf(catalog.rows[i]["filename"]),
                           FirstPathOf(catalog.rows[j]["filename"]))
    /\ rebuild.scanned =
         Cardinality({p \in ScannedPaths : GlobMatches(FileName(p))})

\* a recursive scan: the R image is met first below "0" and again at the top
\* level, a name with sim TNG? has the suffix but does not parse, notes.txt
\* is not scanned; two rows, R before G
C16_Witness ==
  /\ rebuild.done /\ rebuild.recursive /\ ~w_call.append
  /\ split_files = NamePool
  /\ <<<<"0">>, SplitName(Src1, "R")>> \in sub_files
  /\ rebuild.duplicates >= 1
  /\ Len(catalog.rows) = 2
  /\ catalog.rows[1]["filename"] = SplitName(Src1, "R")
  /\ catalog.rows[2]["filename"] = SplitName(Src1, "G")

\* sub occurs in u, stated on the slices of u
IsSubstring(sub, u) ==
  \E i \in 0..(Len(u) - Len(sub)) : SubSeq(u, i + 1, i + Len(sub)) = sub

MatchingEntries ==
  SelectSeq(fetch.listing, LAMBDA u : IsSubstring(fetch.filter, u))

GetUrls == [k \in 1..Len(fetch.gets) |-> fetch.gets[k].url]

RECURSIVE FilesOfGets(_)
FilesOfGets(n) ==
  IF n = 0 THEN <<>> ELSE FilesOfGets(n - 1) \o fetch.gets[n].files

\* C17: the GETs of make_list_of_urls are, in order, the listing and then
\* the listing entries that contain the filter, none other and none twice
\* for one entry; a GET that fails is the last one and the call raises
\* without writing; when the call returns, the file holds one line for each
\* element of the files arrays the matching entries answered with, entry
\* after entry in listing order, each array in its own order.
C17_UrlList ==
  /\ Len(GetUrls) <= 1 + Len(MatchingEntries)
  /\ GetUrls = SubSeq(<<S_listing_url>> \o MatchingEntries, 1, Len(GetUrls))
  /\ \A k \in 1..Len(fetch.gets) :
       ~fetch.gets[k].ok => k = Len(fetch.gets) /\ fetch.pc = "raised"
  /\ fetch.pc = "raised" =>
       ~fetch.out.exists /\ ~fetch.gets[Len(fetch.gets)].ok
  /\ fetch.out.exists <=> fetch.pc = "done"
  /\ fetch.pc = "done" =>
       /\ Len(GetUrls) = 1 + Len(MatchingEntries)
       /\ FileLines(fetch.out.content) = FilesOfGets(Len(fetch.gets))

\* a listing of a matching and a non-matching entry: two GETs, the file
\* holds the two files of the matching entry
C17_Witness ==
  /\ fetch.pc = "done"
  /\ fetch.listing = <<Entry_r72, Entry_r91>>
  /\ fetch.filter = <<"_", "v", "2", "_", "9", "1">>
  /\ GetUrls = <<S_listing_url, Entry_r91>>
  /\ FileLines(fetch.out.content) = <<<<"f", "1">>, <<"f", "2">>>>

AppendMerged == WroteLast /\ w_call.append /\ w_call.existing.exists

StandardOf(cols) ==
  SelectSeq(cols, LAMBDA c : c \in SeqToSet(CATALOG_COLUMN_ORDER))

\* the written columns are those of the existing catalog and the standard
\* ones, each once
ColumnsAreSuperset ==
  /\ SeqToSet(catalog.cols) =
       SeqToSet(w_call.existing.cols) \cup SeqToSet(CATALOG_COLUMN_ORDER)
  /\ Cardinality(SeqToSet(catalog.cols)) = Len(catalog.cols)

\* every row has a value under every column, and an incoming row has the
\* default under a column only the existing catalog had
RowsPopulated ==
  /\ \A i \in 1..Len(catalog.rows) :
       DOMAIN catalog.rows[i] = SeqToSet(catalog.cols)
  /\ \A i \in (Len(w_call.existing.rows) + 1)..Len(catalog.rows) :
       \A c \in SeqToSet(catalog.cols) \ SeqToSet(CATALOG_COLUMN_ORDER) :
         catalog.rows[i][c] = _default_value_for_column(c)

\* C18: after an append-merge write over any existing catalog the written
\* columns are the superset of the existing and the 26 standard columns,
\* none dropped, the standard columns stand in the order of
\* CATALOG_COLUMN_ORDER, and every row has a value in every column.
C18_FullSchemaFixedOrder ==
  AppendMerged =>
    /\ ColumnsAreSuperset
    /\ StandardOf(catalog.cols) = CATALOG_COLUMN_ORDER
    /\ RowsPopulated

HasRowNamed(filename) ==
  \E k \in 1..Len(catalog.rows) : catalog.rows[k]["filename"] = filename

\* C19: a URL whose split raised (at fits.open, or at a write after k
\* filters were written) has its line in the failed list when there is one,
\* and the loop went on to the next URL; its k split files are on disk, its
\* k entries are among the collected ones and, once the catalog is written
\* at the end, in the catalog; its parent file is still on disk, with
\* remove_parent too (until a later item of the same URL replaces it).
C19_SplitFailureKeepsOutputs ==
  /\ \A i \in Items : items[i].state = "split_failed" =>
       /\ cfg.failed # "none" => Recorded(i)
       /\ MovedPast(i)
       /\ items[i].err = Error("OSError")
       /\ \A k \in 1..Len(WrittenFilters(i)) :
            /\ SplitName(Src(i), WrittenFilters(i)[k]) \in split_files
            /\ (cfg.catalog # "none" /\ catalog_writes = 1) =>
                 HasRowNamed(SplitName(Src(i), WrittenFilters(i)[k]))
       /\ ~DownloadedLater(i) => ParentName(Src(i)) \in DOMAIN parent_files
  /\ EntriesAsCollected
  /\ Len(failed_urls) =
       IF cfg.failed = "none" THEN 0 ELSE Cardinality(FailedItems)

\* the split of the first URL raises at Y after R was written, the second
\* URL is split and its parent removed: three rows, the first the R image
\* of the failed URL, whose parent is still there
C19_Witness ==
  /\ pc = "done" /\ Len(batch) = 2 /\ batch[1] # batch[2]
  /\ cfg.remove_parent /\ cfg.catalog = "write" /\ cfg.failed # "none"
  /\ items[1].state = "split_failed" /\ WrittenFilters(1) = <<"R">>
  /\ items[2].state = "split_removed" /\ items[2].body.exts = {"R", "Y"}
  /\ SplitName(Src(1), "R") \in split_files
  /\ SplitName(Src(1), "Y") \notin split_files
  /\ Len(catalog.rows) = 3
  /\ catalog.rows[1]["filename"] = SplitName(Src(1), "R")
  /\ ParentName(Src(1)) \in DOMAIN parent_files
  /\ ParentName(Src(2)) \notin DOMAIN parent_files
  /\ Len(failed_urls) = 1

\* how often a row stands in a sequence of rows
TimesIn(row, rows) == Cardinality({k \in 1..Len(rows) : rows[k] = row})

SameRows(a, b) ==
  /\ Len(a) = Len(b)
  /\ \A k \in 1..Len(a) : TimesIn(a[k], a) = TimesIn(a[k], b)

NoSplitFailure == \A i \in Items : items[i].state # "split_failed"

\* C20: a run with a catalog path, catalog_append=False and no split
\* failure into an empty split directory leaves the table of its entries as
\* the catalog, and the rebuild over that directory afterwards writes a
\* catalog of the 26 columns with the same rows, each as many times, up to
\* the order of the rows.
C20_RebuildEqualsPipeline ==
  (pc = "done" /\ cfg.catalog = "write" /\ ~cfg.parent_file_only
     /\ NoSplitFailure) =>
    /\ ~rebuild.done =>
         catalog = FileOf(_build_catalog_table(catalog_entries))
    /\ rebuild.done =>
         /\ catalog.exists
         /\ catalog.cols = CATALOG_COLUMN_ORDER
         /\ SameRows(catalog.rows, catalog_entries)

SameObject(a, b) ==
  a["snapshot"] = b["snapshot"] /\ a["subhalo"] = b["subhalo"]

====
